---- MODULE Spec2Model ----
(***************************************************************************)
(* Model of src/js/project-planner.js (class ProjectPlanner): the task     *)
(* selection state, its persistence in localStorage, the duration parser,  *)
(* the timeline scheduler, the category grouper and plan generation.       *)
(*                                                                         *)
(* Texts that the code inspects character by character (the duration       *)
(* estimates) are sequences of one-character strings; texts that are only  *)
(* passed through (ids, titles, ...) are strings.                          *)
(***************************************************************************)
EXTENDS Integers, Sequences, FiniteSets, TLC

\* -------------------------------------------------------------------------
\* Bounds of the model
\* -------------------------------------------------------------------------
\* duration bounds N and M range over 0..MaxNum
MaxNum == 11
\* page loads (constructor runs) in one behaviour
MaxSessions == 2
\* faults of the store in one behaviour: setItem calls that throw, and
\* changes made to the store by something other than the planner
MaxStoreFaults == 1
\* plan modals attached to document.body at the same time
MaxModals == 1
\* length of the plans given to a direct generateTimeline call
MaxPlanLen == 3
\* length of the plans given to a direct groupTasksByCategory call
MaxGroupLen == 4

\* F(value), with value computed once however often F uses it (a const
\* binding in the source)
Bind(value, F(_)) == CHOOSE result \in {F(x) : x \in {value}} : TRUE

\* -------------------------------------------------------------------------
\* Characters and texts
\* -------------------------------------------------------------------------
DigitChars == <<"0", "1", "2", "3", "4", "5", "6", "7", "8", "9">>

IsDigit(c) == \E d \in 1..10 : DigitChars[d] = c

DigitValue(c) == (CHOOSE d \in 1..10 : DigitChars[d] = c) - 1

\* \s of the regular expression
WhiteSpace == {" ", "\t"}

\* the /i flag and String.prototype.toLowerCase, on the letters of the units
ToLowerCase(c) ==
    CASE c = "D" -> "d"
      [] c = "A" -> "a"
      [] c = "Y" -> "y"
      [] c = "W" -> "w"
      [] c = "E" -> "e"
      [] c = "K" -> "k"
      [] c = "S" -> "s"
      [] OTHER -> c

Txt_2_4_days == <<"2", "-", "4", " ", "d", "a", "y", "s">>
Txt_1_day == <<"1", " ", "d", "a", "y">>
Txt_4_days == <<"4", " ", "d", "a", "y", "s">>
Txt_0_days == <<"0", " ", "d", "a", "y", "s">>
Txt_1_2_days == <<"1", "-", "2", " ", "d", "a", "y", "s">>
Txt_1_week == <<"1", " ", "w", "e", "e", "k">>
Txt_3_5_weeks == <<"3", "-", "5", " ", "w", "e", "e", "k", "s">>
Txt_0_0_weeks == <<"0", "-", "0", " ", "w", "e", "e", "k", "s">>
Txt_garbage == <<"g", "a", "r", "b", "a", "g", "e">>
Txt_about_3_days == <<"a", "b", "o", "u", "t", " ", "3", " ", "d", "a", "y", "s">>
Txt_3days == <<"3", "d", "a", "y", "s">>
Txt_1_2_3_days == <<"1", "-", "2", "-", "3", " ", "d", "a", "y", "s">>
Txt_2_sp_4_days == <<"2", " ", "-", " ", "4", " ", "d", "a", "y", "s">>
Txt_3_wks == <<"3", " ", "w", "k", "s">>
Txt_two_days == <<"t", "w", "o", " ", "d", "a", "y", "s">>
Txt_1_5_days == <<"1", ".", "5", " ", "d", "a", "y", "s">>
Txt_12_x_days == <<"1", "2", "-", "x", " ", "d", "a", "y", "s">>
Txt_7_daily == <<"7", " ", "d", "a", "i", "l", "y">>
Txt_empty == <<>>

\* decimal digits of a natural number, as a text
RECURSIVE ToDigits(_)
ToDigits(n) ==
    IF n < 10 THEN <<DigitChars[n + 1]>>
    ELSE ToDigits(n \div 10) \o <<DigitChars[(n % 10) + 1]>>

\* the unit words of the estimates, in the letter cases used on task cards
UnitWords ==
    { <<"d", "a", "y">>, <<"d", "a", "y", "s">>,
      <<"w", "e", "e", "k">>, <<"w", "e", "e", "k", "s">>,
      <<"D", "a", "y">>, <<"D", "a", "y", "s">>,
      <<"W", "e", "e", "k">>, <<"W", "e", "e", "k", "s">>,
      <<"D", "A", "Y">>, <<"D", "A", "Y", "S">>,
      <<"W", "E", "E", "K">>, <<"W", "E", "E", "K", "S">> }

IsWeekWord(w) == ToLowerCase(w[1]) = "w"

\* the text "<n> <unit>" or "<n>-<m> <unit>"
SingleText(n, w) == ToDigits(n) \o <<" ">> \o w
RangeText(n, m, w) == ToDigits(n) \o <<"-">> \o ToDigits(m) \o <<" ">> \o w

FormTexts ==
    { SingleText(n, w) : n \in 0..MaxNum, w \in UnitWords }
      \cup { RangeText(nm[1], nm[2], w) :
               nm \in (0..MaxNum) \X (0..MaxNum), w \in UnitWords }

OtherTexts ==
    { Txt_garbage, Txt_about_3_days, Txt_3days, Txt_1_2_3_days,
      Txt_2_sp_4_days, Txt_3_wks, Txt_two_days, Txt_1_5_days,
      Txt_12_x_days, Txt_7_daily, Txt_empty }

DurationTexts == FormTexts \cup OtherTexts

\* -------------------------------------------------------------------------
\* parseDuration: /(\d+)(?:-(\d+))?\s*(day|week)/i
\* -------------------------------------------------------------------------
\* parseInt of a text made of digits
RECURSIVE parseInt(_)
parseInt(digits) ==
    IF Len(digits) = 0 THEN 0
    ELSE parseInt(SubSeq(digits, 1, Len(digits) - 1)) * 10
           + DigitValue(digits[Len(digits)])

\* \d+ is greedy: the last position of the run of digits that starts at i.
\* A shorter run is never part of a match, because the character after it
\* is a digit and the pattern continues with "-", \s or a letter.
RECURSIVE DigitRunEnd(_, _)
DigitRunEnd(s, i) ==
    IF i + 1 <= Len(s) /\ IsDigit(s[i + 1]) THEN DigitRunEnd(s, i + 1) ELSE i

\* \s* is greedy: the first position from i that holds no white space
RECURSIVE SkipSpaces(_, _)
SkipSpaces(s, i) ==
    IF i <= Len(s) /\ s[i] \in WhiteSpace THEN SkipSpaces(s, i + 1) ELSE i

\* (day|week) at position i, ignoring case; "none" when neither is there
UnitAt(s, i) ==
    IF /\ i + 2 <= Len(s)
       /\ ToLowerCase(s[i]) = "d"
       /\ ToLowerCase(s[i + 1]) = "a"
       /\ ToLowerCase(s[i + 2]) = "y"
    THEN "day"
    ELSE IF /\ i + 3 <= Len(s)
            /\ ToLowerCase(s[i]) = "w"
            /\ ToLowerCase(s[i + 1]) = "e"
            /\ ToLowerCase(s[i + 2]) = "e"
            /\ ToLowerCase(s[i + 3]) = "k"
    THEN "week"
    ELSE "none"

NoMatch == [found |-> FALSE, m1 |-> <<>>, m2 |-> <<>>, m3 |-> "none"]

\* the attempt of the regular expression at start position i: first with
\* the optional group (?:-(\d+)), then without it
MatchAt(s, i) ==
    IF ~IsDigit(s[i]) THEN NoMatch
    ELSE
      LET j == DigitRunEnd(s, i)
          hasGroup == j + 2 <= Len(s) /\ s[j + 1] = "-" /\ IsDigit(s[j + 2])
          k == IF hasGroup THEN DigitRunEnd(s, j + 2) ELSE j
          unitWith == IF hasGroup THEN UnitAt(s, SkipSpaces(s, k + 1))
                      ELSE "none"
          unitWithout == UnitAt(s, SkipSpaces(s, j + 1))
      IN  IF unitWith # "none"
          THEN [found |-> TRUE, m1 |-> SubSeq(s, i, j),
                m2 |-> SubSeq(s, j + 2, k), m3 |-> unitWith]
          ELSE IF unitWithout # "none"
          THEN [found |-> TRUE, m1 |-> SubSeq(s, i, j),
                m2 |-> <<>>, m3 |-> unitWithout]
          ELSE NoMatch

\* String.prototype.match without the g flag: the leftmost match
StrMatch(s) ==
    LET starts == {i \in 1..Len(s) : MatchAt(s, i).found}
    IN  IF starts = {} THEN NoMatch
        ELSE MatchAt(s, CHOOSE i \in starts : \A h \in starts : i <= h)

\* Math.ceil of half / 2, for a natural number half
CeilHalf(half) == (half + 1) \div 2

DefaultDuration == 2

parseDuration_floor(durationStr) ==
    Bind(StrMatch(durationStr), LAMBDA match :
      IF match.found
      THEN LET min == parseInt(match.m1)
               max == IF match.m2 # <<>> THEN parseInt(match.m2) ELSE min
           IN  IF match.m3 = "week"
               THEN ((min + max) * 7) \div 2
               ELSE (min + max) \div 2
      ELSE DefaultDuration)

parseDuration(durationStr) ==
    Bind(StrMatch(durationStr), LAMBDA match :
      IF match.found
      THEN LET min == parseInt(match.m1)
               max == IF match.m2 # <<>> THEN parseInt(match.m2) ELSE min
           IN  IF match.m3 = "week"
               THEN CeilHalf((min + max) * 7)
               ELSE CeilHalf(min + max)
      ELSE DefaultDuration)

\* -------------------------------------------------------------------------
\* Task cards of the page (the argument of handleTaskSelection)
\* -------------------------------------------------------------------------
\* an element found by querySelector, or its absence
El(text) == [present |-> TRUE, textContent |-> text]
NoStrEl == [present |-> FALSE, textContent |-> ""]
NoTxtEl == [present |-> FALSE, textContent |-> <<>>]

\* dataset.category is "" when the card has no data-category attribute
CardA == [task |-> "a", category |-> "x", title |-> El("A"),
          description |-> El("first"), duration |-> El(Txt_2_4_days),
          difficulty |-> El("Beginner")]
CardB == [task |-> "b", category |-> "y", title |-> El("B"),
          description |-> El("second"), duration |-> El(Txt_1_day),
          difficulty |-> El("Advanced")]
CardC == [task |-> "c", category |-> "", title |-> NoStrEl,
          description |-> NoStrEl, duration |-> El(Txt_4_days),
          difficulty |-> NoStrEl]
\* a second card that carries the data-task value of CardA
CardA2 == [task |-> "a", category |-> "2", title |-> El("A2"),
           description |-> El("other"), duration |-> El(Txt_0_days),
           difficulty |-> El("Beginner")]

\* a card without a .task-duration element
CardD == [task |-> "d", category |-> "y", title |-> El("D"),
          description |-> NoStrEl, duration |-> NoTxtEl,
          difficulty |-> NoStrEl]

\* the cards of the page; CardC and CardD only supply tasks to the direct
\* calls of generateTimeline
Cards == {CardA, CardB, CardA2}

extractTaskData(taskCard) ==
    [id |-> taskCard.task,
     title |-> IF taskCard.title.present THEN taskCard.title.textContent
               ELSE "Unknown Task",
     description |-> IF taskCard.description.present
                     THEN taskCard.description.textContent ELSE "",
     duration |-> IF taskCard.duration.present
                  THEN taskCard.duration.textContent ELSE Txt_1_2_days,
     difficulty |-> IF taskCard.difficulty.present
                    THEN taskCard.difficulty.textContent ELSE "Beginner",
     category |-> IF taskCard.category # "" THEN taskCard.category
                  ELSE "general"]

NoTask == [id |-> "", title |-> "", description |-> "", duration |-> <<>>,
           difficulty |-> "", category |-> ""]

\* -------------------------------------------------------------------------
\* A JavaScript Set of strings: its elements in insertion order
\* -------------------------------------------------------------------------
Range(seq) == {seq[i] : i \in 1..Len(seq)}

SetHas(set, x) == x \in Range(set)

SetAdd_moveToEnd(set, x) == Append(SelectSeq(set, LAMBDA y : y # x), x)

SetAdd(set, x) == IF SetHas(set, x) THEN set ELSE Append(set, x)

SetDelete(set, x) == SelectSeq(set, LAMBDA y : y # x)

\* -------------------------------------------------------------------------
\* addToProjectPlan / removeFromProjectPlan
\* -------------------------------------------------------------------------
PlanIds(plan) == {plan[i].id : i \in 1..Len(plan)}

addToProjectPlan_push(plan, taskData) == Append(plan, taskData)

addToProjectPlan(plan, taskData) ==
    IF \A i \in 1..Len(plan) : plan[i].id # taskData.id
    THEN Append(plan, taskData)
    ELSE plan

removeFromProjectPlan_keep(plan, taskId) ==
    SelectSeq(plan, LAMBDA task : task.id = taskId)

removeFromProjectPlan(plan, taskId) ==
    SelectSeq(plan, LAMBDA task : task.id # taskId)

\* -------------------------------------------------------------------------
\* JSON texts kept in localStorage
\* -------------------------------------------------------------------------
\* A stored value is absent (getItem gives null), a text JSON.parse rejects,
\* or the text of a JSON array, held as the sequence of its elements.  An
\* object is written as its properties in creation order, each a
\* <<name, value>> pair.
Absent == [kind |-> "absent", items |-> <<>>]
Unparseable == [kind |-> "corrupt", items |-> <<>>]

ObjectToJSON(task) ==
    << <<"id", task.id>>, <<"title", task.title>>,
       <<"description", task.description>>, <<"duration", task.duration>>,
       <<"difficulty", task.difficulty>>, <<"category", task.category>> >>

Property(pairs, name) ==
    pairs[CHOOSE i \in 1..Len(pairs) : pairs[i][1] = name][2]

ObjectFromJSON(pairs) ==
    [id |-> Property(pairs, "id"), title |-> Property(pairs, "title"),
     description |-> Property(pairs, "description"),
     duration |-> Property(pairs, "duration"),
     difficulty |-> Property(pairs, "difficulty"),
     category |-> Property(pairs, "category")]

\* JSON.stringify(this.projectPlan)
StringifyPlan(plan) ==
    [kind |-> "json", items |-> [i \in 1..Len(plan) |-> ObjectToJSON(plan[i])]]

\* JSON.stringify([...this.selectedTasks])
StringifySelected(set) == [kind |-> "json", items |-> set]

ParsePlan_reversed(text) ==
    [i \in 1..Len(text.items) |->
        ObjectFromJSON(text.items[Len(text.items) + 1 - i])]

\* JSON.parse of the stored plan text (the caller has excluded a throw)
ParsePlan(text) ==
    [i \in 1..Len(text.items) |-> ObjectFromJSON(text.items[i])]

\* JSON.parse of the stored id text (the caller has excluded a throw)
ParseSelected(text) == text.items

\* taskIds.forEach(taskId => this.selectedTasks.add(taskId))
RECURSIVE AddAll(_, _)
AddAll(set, taskIds) ==
    IF taskIds = <<>> THEN set
    ELSE AddAll(SetAdd(set, Head(taskIds)), Tail(taskIds))

\* loadSavedPlan on a freshly constructed planner (empty set, empty plan):
\* the try block stops at the first JSON.parse that throws, keeping what was
\* assigned before
loadSavedPlan(storage) ==
    LET savedPlan == storage.uxProjectPlan
        savedTasks == storage.uxSelectedTasks
        planThrows == savedPlan.kind = "corrupt"
        plan == IF savedPlan.kind = "json" THEN ParsePlan(savedPlan) ELSE <<>>
        tasksThrow == ~planThrows /\ savedTasks.kind = "corrupt"
        selected == IF ~planThrows /\ savedTasks.kind = "json"
                    THEN AddAll(<<>>, ParseSelected(savedTasks))
                    ELSE <<>>
    IN  [projectPlan |-> plan, selectedTasks |-> selected,
         logged |-> planThrows \/ tasksThrow]

\* -------------------------------------------------------------------------
\* groupTasksByCategory
\* -------------------------------------------------------------------------
\* A plain JavaScript object is held as the sequence of its own properties
\* in the order Object.keys / Object.entries gives them: the keys that are
\* array indices first, in ascending numeric order, then the other keys in
\* creation order.
IndexKeys == {"0", "1", "2", "3"}

IndexKeyValue(key) ==
    CASE key = "0" -> 0
      [] key = "1" -> 1
      [] key = "2" -> 2
      [] key = "3" -> 3

\* names every object inherits from Object.prototype: categories[name] is
\* truthy for them although the object has no such own property
InheritedKeys == {"constructor", "toString", "valueOf", "hasOwnProperty"}

OwnKeys(object) == {object[i].key : i \in 1..Len(object)}

KeyIndex(object, key) == CHOOSE i \in 1..Len(object) : object[i].key = key

\* the position at which a new own property with this key is enumerated
NewKeyPosition(object, key) ==
    IF key \in IndexKeys
    THEN 1 + Cardinality({i \in 1..Len(object) :
                            /\ object[i].key \in IndexKeys
                            /\ IndexKeyValue(object[i].key) < IndexKeyValue(key)})
    ELSE Len(object) + 1

InsertAt(seq, pos, x) ==
    SubSeq(seq, 1, pos - 1) \o <<x>> \o SubSeq(seq, pos, Len(seq))

\* one iteration of the forEach of groupTasksByCategory
GroupStep(accumulated, task) ==
    Bind(accumulated, LAMBDA acc :
      IF acc.threw THEN acc
      ELSE IF task.category \in OwnKeys(acc.categories)
      THEN LET i == KeyIndex(acc.categories, task.category)
           IN  [acc EXCEPT !.categories[i].tasks = Append(@, task)]
      ELSE IF task.category \in InheritedKeys
      THEN [acc EXCEPT !.threw = TRUE]     \* push is not a function
      ELSE [acc EXCEPT !.categories =
              InsertAt(@, NewKeyPosition(@, task.category),
                       [key |-> task.category, tasks |-> <<task>>])])

RECURSIVE GroupFrom(_, _)
GroupFrom(acc, plan) ==
    IF plan = <<>> THEN acc ELSE GroupFrom(GroupStep(acc, Head(plan)), Tail(plan))

groupTasksByCategory(plan) ==
    GroupFrom([threw |-> FALSE, categories |-> <<>>], plan)

\* -------------------------------------------------------------------------
\* generateTimeline
\* -------------------------------------------------------------------------
TimelineStep_overlap(accumulated, task) ==
    Bind(accumulated, LAMBDA acc :
      Bind(parseDuration(task.duration), LAMBDA duration :
        [timeline |-> Append(acc.timeline,
                             [task |-> task.title,
                              startDay |-> acc.totalDays,
                              endDay |-> acc.totalDays + duration,
                              duration |-> duration]),
         totalDays |-> acc.totalDays + duration]))

\* one iteration of the forEach of generateTimeline
TimelineStep(accumulated, task) ==
    Bind(accumulated, LAMBDA acc :
      Bind(parseDuration(task.duration), LAMBDA duration :
        [timeline |-> Append(acc.timeline,
                             [task |-> task.title,
                              startDay |-> acc.totalDays + 1,
                              endDay |-> acc.totalDays + duration,
                              duration |-> duration]),
         totalDays |-> acc.totalDays + duration]))

RECURSIVE TimelineFrom(_, _)
TimelineFrom(acc, plan) ==
    IF plan = <<>> THEN acc
    ELSE TimelineFrom(TimelineStep(acc, Head(plan)), Tail(plan))

generateTimeline(plan) ==
    TimelineFrom([timeline |-> <<>>, totalDays |-> 0], plan)

\* -------------------------------------------------------------------------
\* createPlanDocument
\* -------------------------------------------------------------------------
\* new Date(), as a day number
Dates == {1}

createPlanDocument(plan, tasksByCategory, timeline, today) ==
    [title |-> "UX Project Plan",
     createdDate |-> today,
     estimatedDuration |-> timeline.totalDays,
     estimatedCompletion |-> today + timeline.totalDays,
     taskCount |-> Len(plan),
     categories |-> Len(tasksByCategory),
     tasksByCategory |-> tasksByCategory,
     timeline |-> timeline.timeline,
     totalDays |-> timeline.totalDays]

\* -------------------------------------------------------------------------
\* generateProjectPlan / showCurrentPlan, as functions of the state read
\* -------------------------------------------------------------------------
AlertCreate == "Please select at least one task to create a project plan."
AlertView == "No tasks selected yet. Select some tasks first!"
NoAlert == ""

\* The positions a generation request passes through: "Validating" is the
\* emptiness test, "Rejected" the alert and early return, "Building" the
\* calls of groupTasksByCategory and generateTimeline, "Built" the return of
\* createPlanDocument, "Rendered" the return of showPlanModal.
generateProjectPlan(selected, plan, today) ==
    IF Len(selected) = 0
    THEN [phases |-> <<"Validating", "Rejected">>, alert |-> AlertCreate,
          threw |-> FALSE, documents |-> <<>>]
    ELSE Bind(groupTasksByCategory(plan), LAMBDA grouped :
           IF grouped.threw
           THEN [phases |-> <<"Validating", "Building">>, alert |-> NoAlert,
                 threw |-> TRUE, documents |-> <<>>]
           ELSE Bind(generateTimeline(plan), LAMBDA timeline :
                  [phases |-> <<"Validating", "Building", "Built", "Rendered">>,
                   alert |-> NoAlert, threw |-> FALSE,
                   documents |-> <<createPlanDocument(plan, grouped.categories,
                                                      timeline, today)>>]))

showCurrentPlan(selected, plan, today) ==
    IF Len(plan) = 0
    THEN [phases |-> <<"Validating", "Rejected">>, alert |-> AlertView,
          threw |-> FALSE, documents |-> <<>>]
    ELSE generateProjectPlan(selected, plan, today)

\* -------------------------------------------------------------------------
\* formatCategoryName / generateEmailBody / generatePDFHTML
\* -------------------------------------------------------------------------
\* charAt(0).toUpperCase() + slice(1).replace('-', ' '), on the category
\* names that occur
formatCategoryName(category) ==
    CASE category = "x" -> "X"
      [] category = "y" -> "Y"
      [] category = "z" -> "Z"
      [] category = "2" -> "2"
      [] category = "general" -> "General"
      [] category = "constructor" -> "Constructor"

\* the template of generateEmailBody, held as its interpolated values
generateEmailBody(plan) ==
    [heading |-> "UX Project Plan",
     created |-> plan.createdDate,
     totalTasks |-> plan.taskCount,
     categories |-> plan.categories,
     estimatedDuration |-> plan.estimatedDuration,
     targetCompletion |-> plan.estimatedCompletion,
     timeline |-> [i \in 1..Len(plan.timeline) |->
                     [task |-> plan.timeline[i].task,
                      days |-> <<plan.timeline[i].startDay,
                                 plan.timeline[i].endDay>>]],
     taskDetails |-> [i \in 1..Len(plan.tasksByCategory) |->
                        [heading |-> formatCategoryName(plan.tasksByCategory[i].key),
                         tasks |-> [j \in 1..Len(plan.tasksByCategory[i].tasks) |->
                                      [title |-> plan.tasksByCategory[i].tasks[j].title,
                                       duration |-> plan.tasksByCategory[i].tasks[j].duration]]]]]

\* the template of generatePDFHTML, held as its interpolated values
generatePDFHTML(plan) ==
    [heading |-> "UX Project Plan",
     created |-> plan.createdDate,
     totalTasks |-> plan.taskCount,
     categories |-> plan.categories,
     duration |-> plan.estimatedDuration,
     targetCompletion |-> plan.estimatedCompletion,
     timeline |-> [i \in 1..Len(plan.timeline) |->
                     [task |-> plan.timeline[i].task,
                      days |-> <<plan.timeline[i].startDay,
                                 plan.timeline[i].endDay>>]],
     categoryBlocks |-> [i \in 1..Len(plan.tasksByCategory) |->
                        [heading |-> formatCategoryName(plan.tasksByCategory[i].key),
                         tasks |-> [j \in 1..Len(plan.tasksByCategory[i].tasks) |->
                                      [title |-> plan.tasksByCategory[i].tasks[j].title,
                                       duration |-> plan.tasksByCategory[i].tasks[j].duration,
                                       difficulty |-> plan.tasksByCategory[i].tasks[j].difficulty,
                                       description |-> plan.tasksByCategory[i].tasks[j].description]]]]]

\* encodeURIComponent: the text as a percent-encoded component of a URI
encodeURIComponent(text) == [uriComponent |-> text]

\* -------------------------------------------------------------------------
\* updateSelectedCount / savePlan
\* -------------------------------------------------------------------------
\* the text of #selected-count and the state of #create-plan-btn; the
\* button label is held as the number it shows (0: 'Create Project Plan')
updateSelectedCount(selected) ==
    [selectedCount |-> Len(selected),
     createPlanBtnTasks |-> Len(selected),
     createPlanBtnDisabled |-> ~(Len(selected) > 0)]

\* savePlan: two setItem calls in sequence.  fail = 0: neither throws;
\* fail = 1: the first throws; fail = 2: the second throws.  There is no
\* try around them, so a throw ends savePlan and its caller at once.
savePlan(storage, plan, selected, fail) ==
    [storage |-> IF fail = 1 THEN storage
                 ELSE IF fail = 2
                 THEN [storage EXCEPT !.uxProjectPlan = StringifyPlan(plan)]
                 ELSE [uxProjectPlan |-> StringifyPlan(plan),
                       uxSelectedTasks |-> StringifySelected(selected)],
     threw |-> fail # 0]

\* -------------------------------------------------------------------------
\* State
\* -------------------------------------------------------------------------
VARIABLES
    selectedTasks,   \* this.selectedTasks, in insertion order
    projectPlan,     \* this.projectPlan
    localStorage,    \* the values under 'uxProjectPlan' and 'uxSelectedTasks'
    page,            \* what updateSelectedCount last wrote to the page
    modals,          \* the plan documents of the .plan-modal elements in body
    alertMsg,        \* the alert raised by the last call, or NoAlert
    uncaught,        \* the last call ended with an exception it did not catch
    phases,          \* the positions passed by the last call, if a generation
    lastCall,        \* the last call, its arguments and the state it found
    session,         \* number of page loads so far
    faults,          \* number of store faults so far
    startedEmpty,    \* the session started with an empty set and plan
    exported,        \* what the last step handed to the mail program or saved
    durationStr,     \* argument of a direct parseDuration call
    parsed,          \* its return value
    planArg,         \* this.projectPlan of a direct generateTimeline call
    scheduled,       \* its return value
    grouped          \* return value of a direct groupTasksByCategory call

vars == <<selectedTasks, projectPlan, localStorage, page, modals, alertMsg,
          uncaught, phases, lastCall, session, faults,
          startedEmpty, exported, durationStr, parsed, planArg, scheduled, grouped>>

plannerVars == <<selectedTasks, projectPlan, localStorage, page, modals,
                 alertMsg, uncaught, phases, lastCall, session, faults,
                 startedEmpty, exported>>

NoCall == [op |-> "none", task |-> NoTask, checked |-> FALSE, fail |-> 0,
           prePlan |-> <<>>, preSelected |-> <<>>, afterSelect |-> FALSE,
           afterDeselect |-> FALSE, pairPlan |-> <<>>, pairSelected |-> <<>>,
           modal |-> 0]

NoExport == [kind |-> "none"]

NotParsed == [done |-> FALSE, days |-> 0]

NotScheduled == [done |-> FALSE, timeline |-> <<>>, totalDays |-> 0]

NotGrouped == [done |-> FALSE, threw |-> FALSE, categories |-> <<>>]

directVars == <<durationStr, parsed, planArg, scheduled, grouped>>

\* the first page load of a browser whose store holds nothing for the page
PlannerInit ==
    /\ selectedTasks = <<>>
    /\ projectPlan = <<>>
    /\ localStorage = [uxProjectPlan |-> Absent, uxSelectedTasks |-> Absent]
    /\ page = updateSelectedCount(<<>>)
    /\ modals = <<>>
    /\ alertMsg = NoAlert
    /\ uncaught = FALSE
    /\ phases = <<>>
    /\ lastCall = [NoCall EXCEPT !.op = "construct"]
    /\ session = 1
    /\ faults = 0
    /\ startedEmpty = TRUE
    /\ exported = NoExport

Init ==
    /\ PlannerInit
    /\ durationStr = <<>>
    /\ parsed = NotParsed
    /\ planArg = <<>>
    /\ scheduled = NotScheduled
    /\ grouped = NotGrouped

\* -------------------------------------------------------------------------
\* Operations
\* -------------------------------------------------------------------------
\* handleTaskSelection(checkbox): the card of the checkbox and its checked
\* state are the inputs
HandleTaskSelection(taskCard, checked, fail) ==
    LET taskId == taskCard.task
        taskData == extractTaskData(taskCard)
        selected == IF checked THEN SetAdd(selectedTasks, taskId)
                    ELSE SetDelete(selectedTasks, taskId)
        plan == IF checked THEN addToProjectPlan(projectPlan, taskData)
                ELSE removeFromProjectPlan(projectPlan, taskId)
        saved == savePlan(localStorage, plan, selected, fail)
        afterSelect == /\ ~checked
                       /\ lastCall.op = "handleTaskSelection"
                       /\ lastCall.checked
                       /\ lastCall.task.id = taskId
        afterDeselect == /\ checked
                         /\ lastCall.op = "handleTaskSelection"
                         /\ ~lastCall.checked
                         /\ lastCall.task.id = taskId
        paired == afterSelect \/ afterDeselect
    IN  /\ fail # 0 => faults < MaxStoreFaults
        /\ selectedTasks' = selected
        /\ projectPlan' = plan
        /\ page' = updateSelectedCount(selected)
        /\ localStorage' = saved.storage
        /\ uncaught' = saved.threw
        /\ faults' = IF fail # 0 THEN faults + 1 ELSE faults
        /\ alertMsg' = NoAlert
        /\ phases' = <<>>
        /\ lastCall' = [op |-> "handleTaskSelection", task |-> taskData,
                        checked |-> checked, fail |-> fail,
                        prePlan |-> projectPlan,
                        preSelected |-> selectedTasks,
                        afterSelect |-> afterSelect,
                        afterDeselect |-> afterDeselect,
                        pairPlan |-> IF paired THEN lastCall.prePlan
                                     ELSE <<>>,
                        pairSelected |-> IF paired
                                         THEN lastCall.preSelected ELSE <<>>,
                        modal |-> 0]
        /\ exported' = NoExport
        /\ UNCHANGED <<modals, session, startedEmpty, directVars>>

\* click on #create-plan-btn: generateProjectPlan()
CreatePlan(today) ==
    \E result \in {generateProjectPlan(selectedTasks, projectPlan, today)} :
        /\ result.documents # <<>> => Len(modals) < MaxModals
        /\ modals' = modals \o result.documents
        /\ alertMsg' = result.alert
        /\ uncaught' = result.threw
        /\ phases' = result.phases
        /\ exported' = NoExport
        /\ lastCall' = [NoCall EXCEPT !.op = "generateProjectPlan",
                                      !.prePlan = projectPlan,
                                      !.preSelected = selectedTasks]
        /\ UNCHANGED <<selectedTasks, projectPlan, localStorage, page, session,
                       faults, startedEmpty, directVars>>

\* click on #view-plan-btn: showCurrentPlan()
ViewPlan(today) ==
    \E result \in {showCurrentPlan(selectedTasks, projectPlan, today)} :
        /\ result.documents # <<>> => Len(modals) < MaxModals
        /\ modals' = modals \o result.documents
        /\ alertMsg' = result.alert
        /\ uncaught' = result.threw
        /\ phases' = result.phases
        /\ exported' = NoExport
        /\ lastCall' = [NoCall EXCEPT !.op = "showCurrentPlan",
                                      !.prePlan = projectPlan,
                                      !.preSelected = selectedTasks]
        /\ UNCHANGED <<selectedTasks, projectPlan, localStorage, page, session,
                       faults, startedEmpty, directVars>>

\* click on .modal-close or on the overlay: document.body.removeChild(modal)
CloseModal(i) ==
    /\ i \in 1..Len(modals)
    /\ modals' = SubSeq(modals, 1, i - 1) \o SubSeq(modals, i + 1, Len(modals))
    /\ alertMsg' = NoAlert
    /\ uncaught' = FALSE
    /\ phases' = <<>>
    /\ lastCall' = [NoCall EXCEPT !.op = "closeModal"]
    /\ exported' = NoExport
    /\ UNCHANGED <<selectedTasks, projectPlan, localStorage, page,
                   session, faults, startedEmpty, directVars>>

\* emailPlan as it would be if the handler rebuilt the document from the
\* planner's state at the time of the click
emailPlan_live(planDocument) ==
    LET rebuilt == generateProjectPlan(selectedTasks, projectPlan,
                                       planDocument.createdDate)
        shown == IF rebuilt.documents = <<>> THEN planDocument
                 ELSE rebuilt.documents[1]
    IN  [kind |-> "mailto",
         subject |-> encodeURIComponent("UX Project Plan"),
         body |-> encodeURIComponent(generateEmailBody(shown))]

\* emailPlan: the mailto link assigned to window.location.href
emailPlan(planDocument) ==
    [kind |-> "mailto",
     subject |-> encodeURIComponent("UX Project Plan"),
     body |-> encodeURIComponent(generateEmailBody(planDocument))]

\* downloadPDF: the Blob offered for download (the file name carries the
\* date of the click and is left out)
downloadPDF(planDocument) ==
    [kind |-> "download",
     type |-> "text/html",
     content |-> generatePDFHTML(planDocument)]

\* click on #email-plan of the i-th modal: the listener bound by
\* bindModalEvents calls emailPlan with the document it was bound with
EmailPlan(i) ==
    /\ i \in 1..Len(modals)
    /\ exported' = emailPlan(modals[i])
    /\ alertMsg' = NoAlert
    /\ uncaught' = FALSE
    /\ phases' = <<>>
    /\ lastCall' = [NoCall EXCEPT !.op = "emailPlan", !.modal = i]
    /\ UNCHANGED <<selectedTasks, projectPlan, localStorage, page, modals,
                   session, faults, startedEmpty, directVars>>

\* click on #download-pdf of the i-th modal
DownloadPDF(i) ==
    /\ i \in 1..Len(modals)
    /\ exported' = downloadPDF(modals[i])
    /\ alertMsg' = NoAlert
    /\ uncaught' = FALSE
    /\ phases' = <<>>
    /\ lastCall' = [NoCall EXCEPT !.op = "downloadPDF", !.modal = i]
    /\ UNCHANGED <<selectedTasks, projectPlan, localStorage, page, modals,
                   session, faults, startedEmpty, directVars>>

\* DOMContentLoaded of a new page load: new ProjectPlanner(), that is the
\* constructor, init, loadSavedPlan and updateSelectedCount
PageLoad ==
    LET loaded == loadSavedPlan(localStorage)
    IN  /\ session < MaxSessions
        /\ session' = session + 1
        /\ selectedTasks' = loaded.selectedTasks
        /\ projectPlan' = loaded.projectPlan
        /\ page' = updateSelectedCount(loaded.selectedTasks)
        /\ modals' = <<>>
        /\ alertMsg' = NoAlert
        /\ uncaught' = FALSE
        /\ phases' = <<>>
        /\ lastCall' = [NoCall EXCEPT !.op = "construct",
                                      !.prePlan = projectPlan,
                                      !.preSelected = selectedTasks]
        /\ startedEmpty' = (loaded.selectedTasks = <<>>
                              /\ loaded.projectPlan = <<>>)
        /\ exported' = NoExport
        /\ UNCHANGED <<localStorage, faults, directVars>>

\* something other than the planner changes the store: a key is removed
\* (cleared site data) or left with a text that is not JSON
StoreKeys == {"uxProjectPlan", "uxSelectedTasks"}

ExternalStoreChange(key, value) ==
    /\ faults < MaxStoreFaults
    /\ localStorage[key] # value
    /\ faults' = faults + 1
    /\ localStorage' = [localStorage EXCEPT ![key] = value]
    /\ lastCall' = [NoCall EXCEPT !.op = "external"]
    /\ exported' = NoExport
    /\ UNCHANGED <<selectedTasks, projectPlan, page, modals, alertMsg,
                   uncaught, phases, session, startedEmpty,
                   directVars>>

Next ==
    \/ \E taskCard \in Cards, checked \in BOOLEAN, fail \in 0..2 :
          HandleTaskSelection(taskCard, checked, fail)
    \/ \E today \in Dates : CreatePlan(today)
    \/ \E today \in Dates : ViewPlan(today)
    \/ \E i \in 1..MaxModals : CloseModal(i)
    \/ PageLoad
    \/ \E key \in StoreKeys, value \in {Absent, Unparseable} :
          ExternalStoreChange(key, value)

Spec == Init /\ [][Next]_vars

----------------------------------------------------------------------------
\* The planner with the buttons of the plan modal, on a store that takes
\* every write and that nothing else changes

NextModal ==
    \/ \E taskCard \in Cards, checked \in BOOLEAN :
          HandleTaskSelection(taskCard, checked, 0)
    \/ \E today \in Dates : CreatePlan(today)
    \/ \E today \in Dates : ViewPlan(today)
    \/ \E i \in 1..MaxModals : CloseModal(i)
    \/ \E i \in 1..MaxModals : EmailPlan(i)
    \/ \E i \in 1..MaxModals : DownloadPDF(i)
    \/ PageLoad

SpecModal == Init /\ [][NextModal]_vars

\* -------------------------------------------------------------------------
\* Direct calls of parseDuration
\* -------------------------------------------------------------------------
InitParse ==
    /\ PlannerInit
    /\ durationStr \in DurationTexts
    /\ parsed = NotParsed
    /\ planArg = <<>>
    /\ scheduled = NotScheduled
    /\ grouped = NotGrouped

ParseDuration ==
    /\ ~parsed.done
    /\ parsed' = [done |-> TRUE, days |-> parseDuration(durationStr)]
    /\ UNCHANGED <<durationStr, planArg, scheduled, grouped, plannerVars>>

NextParse == ParseDuration

SpecParse == InitParse /\ [][NextParse]_vars

\* -------------------------------------------------------------------------
\* Direct calls of generateTimeline
\* -------------------------------------------------------------------------
TaskA == extractTaskData(CardA)
TaskB == extractTaskData(CardB)
TaskC == extractTaskData(CardC)
TaskA2 == extractTaskData(CardA2)
TaskD == extractTaskData(CardD)
TaskG == [id |-> "g", title |-> "G", description |-> "", duration |-> Txt_garbage,
          difficulty |-> "Expert", category |-> "y"]

TaskPool == {TaskA, TaskB, TaskC, TaskA2, TaskD, TaskG}

Plans == UNION {[1..n -> TaskPool] : n \in 0..MaxPlanLen}

InitSchedule ==
    /\ PlannerInit
    /\ durationStr = <<>>
    /\ parsed = NotParsed
    /\ planArg \in Plans
    /\ scheduled = NotScheduled
    /\ grouped = NotGrouped

GenerateTimeline ==
    /\ ~scheduled.done
    /\ \E result \in {generateTimeline(planArg)} :
          scheduled' = [done |-> TRUE, timeline |-> result.timeline,
                        totalDays |-> result.totalDays]
    /\ UNCHANGED <<durationStr, parsed, planArg, grouped, plannerVars>>

NextSchedule == GenerateTimeline

SpecSchedule == InitSchedule /\ [][NextSchedule]_vars

----------------------------------------------------------------------------
\* Direct calls of groupTasksByCategory, for every plan of distinct ids over
\* a pool of tasks

TaskE == [id |-> "e", title |-> "E", description |-> "", duration |-> Txt_1_week,
          difficulty |-> "Beginner", category |-> "x"]
TaskZ == [id |-> "z", title |-> "Z", description |-> "", duration |-> Txt_1_day,
          difficulty |-> "Beginner", category |-> "z"]
TaskK == [id |-> "k", title |-> "K", description |-> "", duration |-> Txt_1_day,
          difficulty |-> "Beginner", category |-> "constructor"]

GroupPool == {TaskA, TaskB, TaskE, TaskZ, TaskA2, TaskK}

GroupPlans ==
    {plan \in UNION {[1..n -> GroupPool] : n \in 0..MaxGroupLen} :
        \A i, j \in 1..Len(plan) : plan[i].id = plan[j].id => i = j}

InitGroup ==
    /\ PlannerInit
    /\ durationStr = <<>>
    /\ parsed = NotParsed
    /\ planArg \in GroupPlans
    /\ scheduled = NotScheduled
    /\ grouped = NotGrouped

GroupTasksByCategory ==
    /\ ~grouped.done
    /\ \E result \in {groupTasksByCategory(planArg)} :
          grouped' = [done |-> TRUE, threw |-> result.threw,
                      categories |-> result.categories]
    /\ UNCHANGED <<durationStr, parsed, planArg, scheduled, plannerVars>>

NextGroup == GroupTasksByCategory

SpecGroup == InitGroup /\ [][NextGroup]_vars

\* -------------------------------------------------------------------------
\* Properties
\* -------------------------------------------------------------------------
NoDuplicateIds(plan) ==
    \A i, j \in 1..Len(plan) : i # j => plan[i].id # plan[j].id

IsSelectionCall == lastCall.op = "handleTaskSelection"

IsGenerationCall == lastCall.op \in {"generateProjectPlan", "showCurrentPlan"}

\* C1: in a session that started with an empty set and an empty plan, after
\* any sequence of select and deselect calls the plan holds exactly one entry
\* for each selected id, none for any other id, and no id twice.
C1_PlanHoldsSelectedOnce ==
    startedEmpty =>
      /\ \A id \in Range(selectedTasks) :
            Cardinality({i \in 1..Len(projectPlan) : projectPlan[i].id = id}) = 1
      /\ \A i \in 1..Len(projectPlan) : projectPlan[i].id \in Range(selectedTasks)
      /\ NoDuplicateIds(projectPlan)

\* a session that started empty, where an already selected id was selected
\* again while another task is selected too
C1_Witness ==
    /\ startedEmpty
    /\ IsSelectionCall
    /\ lastCall.checked
    /\ lastCall.task.id \in PlanIds(lastCall.prePlan)
    /\ Len(projectPlan) = 2

\* C2: in every reachable state, also right after hydration from whatever
\* the store holds, the ids of the plan are exactly the selected ids and no
\* id occurs twice in the plan.
C2_SelectionInvariant ==
    /\ PlanIds(projectPlan) = Range(selectedTasks)
    /\ NoDuplicateIds(projectPlan)

\* C3: a load that finds one of the two stored values absent or unparseable
\* ends with an empty set and an empty plan, and no exception escapes it.
C3_LoadFallsBackToEmpty ==
    ( /\ lastCall.op = "construct"
      /\ \E key \in StoreKeys : localStorage[key].kind \in {"absent", "corrupt"} )
    => /\ selectedTasks = <<>>
       /\ projectPlan = <<>>
       /\ ~uncaught

\* C4: a select or deselect whose persistence write fails does not pass the
\* failure on to its caller, and keeps the change it made to the set and the
\* plan.
C4_WriteFailureContained ==
    (IsSelectionCall /\ lastCall.fail # 0)
    => /\ ~uncaught
       /\ selectedTasks =
            IF lastCall.checked
            THEN SetAdd(lastCall.preSelected, lastCall.task.id)
            ELSE SetDelete(lastCall.preSelected, lastCall.task.id)
       /\ PlanIds(projectPlan) =
            IF lastCall.checked
            THEN PlanIds(lastCall.prePlan) \cup {lastCall.task.id}
            ELSE PlanIds(lastCall.prePlan) \ {lastCall.task.id}

\* C5: parseDuration returns a day count of at least 1 for every text, also
\* for the texts whose bounds are 0.
C5_ParseAtLeastOne == parsed.done => parsed.days >= 1

\* the least whole number that is at least num / den
CeilOfRatio(num, den) ==
    CHOOSE d \in 0..num : d * den >= num /\ (d = 0 \/ (d - 1) * den < num)

AllDigits(t) == Len(t) >= 1 /\ \A i \in 1..Len(t) : IsDigit(t[i])

AllSpaces(t) == \A i \in 1..Len(t) : t[i] \in WhiteSpace

LowerText(t) == [i \in 1..Len(t) |-> ToLowerCase(t[i])]

IsUnitStem(t) == LowerText(t) \in {<<"d", "a", "y">>, <<"w", "e", "e", "k">>}

\* t is <N>[-<M>], white space, day or week
IsPatternText(t) ==
    \E a \in 1..Len(t), b \in 1..Len(t), c \in 1..Len(t) :
        /\ a <= b /\ b <= c
        /\ \/ AllDigits(SubSeq(t, 1, a)) /\ a = b
           \/ /\ b >= a + 2
              /\ AllDigits(SubSeq(t, 1, a))
              /\ t[a + 1] = "-"
              /\ AllDigits(SubSeq(t, a + 2, b))
        /\ AllSpaces(SubSeq(t, b + 1, c))
        /\ IsUnitStem(SubSeq(t, c + 1, Len(t)))

\* the pattern occurs somewhere in the text
ContainsPattern(s) ==
    \E i \in 1..Len(s), j \in 1..Len(s) : i <= j /\ IsPatternText(SubSeq(s, i, j))

C7_TimelineBackToBack ==
    scheduled.done =>
      LET timeline == scheduled.timeline
      IN  /\ Len(timeline) = Len(planArg)
          /\ \A i \in 1..Len(timeline) : timeline[i].task = planArg[i].title
          /\ Len(timeline) >= 1 => timeline[1].startDay = 1
          /\ \A i \in 2..Len(timeline) :
                timeline[i].startDay = timeline[i - 1].endDay + 1
          /\ scheduled.totalDays =
                IF Len(timeline) = 0 THEN 0 ELSE timeline[Len(timeline)].endDay
          /\ planArg = <<TaskA, TaskB, TaskC>> =>
                /\ <<timeline[1].startDay, timeline[1].endDay>> = <<1, 3>>
                /\ <<timeline[2].startDay, timeline[2].endDay>> = <<4, 4>>
                /\ <<timeline[3].startDay, timeline[3].endDay>> = <<5, 8>>
                /\ scheduled.totalDays = 8

\* the plan with durations 3, 1, 4 has been scheduled
C7_Witness ==
    /\ scheduled.done
    /\ planArg = <<TaskA, TaskB, TaskC>>
    /\ Len(scheduled.timeline) = 3
    /\ scheduled.totalDays = 8

\* C8: a generation request made while the plan is empty, through either
\* entry point, is rejected with a message; nothing is built or rendered.
C8_EmptyPlanRejected ==
    (IsGenerationCall /\ projectPlan = <<>>)
    => /\ alertMsg # NoAlert
       /\ phases = <<"Validating", "Rejected">>

\* C9: a generation request passes Validating and then either Rejected or
\* Building, Built, Rendered; it ends in Rejected only when the plan is
\* empty and in Rendered when the plan is not empty.
C9_GenerationStateMachine ==
    IsGenerationCall
    => /\ phases \in { <<"Validating", "Rejected">>,
                       <<"Validating", "Building", "Built", "Rendered">> }
       /\ phases[Len(phases)] = "Rejected" => projectPlan = <<>>
       /\ projectPlan # <<>> => phases[Len(phases)] = "Rendered"

\* C10 as stated: select(t) followed at once by deselect(t.id) leaves the
\* plan and the selected ids as they were before the select, for every t.
C10_SelectThenDeselectRestores ==
    lastCall.afterSelect
    => /\ projectPlan = lastCall.pairPlan
       /\ Range(selectedTasks) = Range(lastCall.pairSelected)

\* C10 amended: select(t) followed at once by deselect(t.id) leaves the plan
\* (same entries, same order) and the selected ids as they were before the
\* select, for every t whose id was in neither of them before the select.
C10_SelectThenDeselectRestoresUnselected ==
    ( /\ lastCall.afterSelect
      /\ lastCall.task.id \notin Range(lastCall.pairSelected)
      /\ lastCall.task.id \notin PlanIds(lastCall.pairPlan) )
    => /\ projectPlan = lastCall.pairPlan
       /\ selectedTasks = lastCall.pairSelected

\* an unselected task was selected and deselected at once while another
\* task stayed selected
C10_Witness ==
    /\ lastCall.afterSelect
    /\ lastCall.task.id \notin Range(lastCall.pairSelected)
    /\ lastCall.task.id \notin PlanIds(lastCall.pairPlan)
    /\ Len(lastCall.pairPlan) = 1
    /\ projectPlan = lastCall.pairPlan

\* C11: when every persistence write of a session succeeded and nothing
\* else touched the store, the next page load restores a plan equal to the
\* plan the session ended with (same ids, same order, same field values) and
\* the same set of selected ids.
C11_RoundTrip ==
    (lastCall.op = "construct" /\ session > 1 /\ faults = 0)
    => /\ Len(projectPlan) = Len(lastCall.prePlan)
       /\ \A i \in 1..Len(projectPlan) :
            /\ projectPlan[i].id = lastCall.prePlan[i].id
            /\ projectPlan[i].title = lastCall.prePlan[i].title
            /\ projectPlan[i].description = lastCall.prePlan[i].description
            /\ projectPlan[i].duration = lastCall.prePlan[i].duration
            /\ projectPlan[i].difficulty = lastCall.prePlan[i].difficulty
            /\ projectPlan[i].category = lastCall.prePlan[i].category
       /\ Range(selectedTasks) = Range(lastCall.preSelected)

\* a page load restored two tasks, in an order other than that of the cards
C11_Witness ==
    /\ lastCall.op = "construct"
    /\ session > 1
    /\ faults = 0
    /\ Len(projectPlan) = 2
    /\ projectPlan[1].id = "b"
    /\ projectPlan = lastCall.prePlan

\* the categories of a plan, each once, in the order of first occurrence
RECURSIVE FirstOccurrences(_, _)
FirstOccurrences(seen, plan) ==
    IF plan = <<>> THEN seen
    ELSE FirstOccurrences(
            IF \E i \in 1..Len(seen) : seen[i] = Head(plan).category
            THEN seen ELSE Append(seen, Head(plan).category),
            Tail(plan))

\* the tasks of one category, in plan order
RECURSIVE TasksOfCategory(_, _)
TasksOfCategory(plan, category) ==
    IF plan = <<>> THEN <<>>
    ELSE IF Head(plan).category = category
         THEN <<Head(plan)>> \o TasksOfCategory(Tail(plan), category)
         ELSE TasksOfCategory(Tail(plan), category)

\* C12: for every plan and every category string, grouping returns one
\* bucket per category, enumerated in the order in which the categories
\* first occur in the plan; each bucket holds exactly the plan's tasks of its
\* category, in plan order, so that every task appears exactly once.
C12_GroupFirstOccurrenceOrder ==
    grouped.done =>
        LET order == FirstOccurrences(<<>>, planArg)
        IN  /\ ~grouped.threw
            /\ Len(grouped.categories) = Len(order)
            /\ \A i \in 1..Len(order) :
                 /\ grouped.categories[i].key = order[i]
                 /\ grouped.categories[i].tasks =
                        TasksOfCategory(planArg, order[i])

RECURSIVE SumOfDurations(_)
SumOfDurations(timeline) ==
    IF timeline = <<>> THEN 0
    ELSE Head(timeline).duration + SumOfDurations(Tail(timeline))

\* C13: a plan document built in a state has as task count the number of
\* entries of the plan, as category count the number of distinct categories
\* of the plan and as estimated duration the sum of the durations of its
\* timeline entries; the selected-task count shown on the page in that state
\* equals the task count of the document.
C13_DocumentCounts ==
    (IsGenerationCall /\ phases = <<"Validating", "Building", "Built", "Rendered">>)
    => LET planDocument == modals[Len(modals)]
       IN  /\ planDocument.taskCount = Len(projectPlan)
           /\ planDocument.categories =
                 Cardinality({projectPlan[i].category : i \in 1..Len(projectPlan)})
           /\ planDocument.totalDays = SumOfDurations(planDocument.timeline)
           /\ planDocument.estimatedDuration = planDocument.totalDays
           /\ page.selectedCount = planDocument.taskCount

\* C14: whatever the duration texts of the plan's tasks, every timeline entry
\* starts on day 1 or later, ends no earlier than it starts, lasts at least
\* one day, and ends on startDay + duration - 1.
C14_TimelineEntryBounds ==
    scheduled.done =>
      \A i \in 1..Len(scheduled.timeline) :
         LET item == scheduled.timeline[i]
         IN  /\ item.startDay >= 1
             /\ item.endDay >= item.startDay
             /\ item.duration >= 1
             /\ item.endDay = item.startDay + item.duration - 1

\* the ids of the plan's entries, in plan order
IdsInOrder(plan) == [i \in 1..Len(plan) |-> plan[i].id]

\* plan without its entry at position k
WithoutEntry(plan, k) == [i \in 1..(Len(plan) - 1) |->
                            IF i < k THEN plan[i] ELSE plan[i + 1]]

C16_RepeatedCallChangesNothing ==
    IsSelectionCall =>
      LET id == lastCall.task.id
      IN  /\ (lastCall.checked /\ id \in Range(lastCall.preSelected))
               => /\ selectedTasks = lastCall.preSelected
                  /\ projectPlan = lastCall.prePlan
                  /\ lastCall.fail = 0
                       => /\ localStorage.uxProjectPlan.kind = "json"
                          /\ ParsePlan(localStorage.uxProjectPlan) = projectPlan
                          /\ localStorage.uxSelectedTasks.kind = "json"
                          /\ ParseSelected(localStorage.uxSelectedTasks)
                                = selectedTasks
          /\ (~lastCall.checked /\ id \notin Range(lastCall.preSelected))
               => /\ selectedTasks = lastCall.preSelected
                  /\ projectPlan = lastCall.prePlan

\* the ids a stored value describes: those of its entries when it is JSON
\* text, none when nothing is stored
StoredPlanIds(storage) ==
    IF storage.uxProjectPlan.kind = "json"
    THEN PlanIds(ParsePlan(storage.uxProjectPlan)) ELSE {}

StoredSelectedIds(storage) ==
    IF storage.uxSelectedTasks.kind = "json"
    THEN Range(ParseSelected(storage.uxSelectedTasks)) ELSE {}

\* C17: after every select or deselect call the store was written once per
\* key, the two stored values agree with the plan and the selected ids in
\* memory and with each other; also when the write failed between the two
\* keys, the two stored values never describe different sets of ids.
C17_StoredValuesAgree ==
    IsSelectionCall =>
      /\ StoredPlanIds(localStorage) = StoredSelectedIds(localStorage)
      /\ ~uncaught
           => /\ localStorage.uxProjectPlan = StringifyPlan(projectPlan)
              /\ localStorage.uxSelectedTasks = StringifySelected(selectedTasks)

\* what a mail body shows of a document: its counts, dates, day ranges and
\* the titles and duration texts of its tasks, category by category
BodyShows(body, planDocument) ==
    /\ body.created = planDocument.createdDate
    /\ body.totalTasks = planDocument.taskCount
    /\ body.categories = planDocument.categories
    /\ body.estimatedDuration = planDocument.totalDays
    /\ Len(body.timeline) = Len(planDocument.timeline)
    /\ \A i \in 1..Len(body.timeline) :
          /\ body.timeline[i].task = planDocument.timeline[i].task
          /\ body.timeline[i].days[1] = planDocument.timeline[i].startDay
          /\ body.timeline[i].days[2] = planDocument.timeline[i].endDay
    /\ Len(body.taskDetails) = Len(planDocument.tasksByCategory)
    /\ \A i \in 1..Len(body.taskDetails) :
          LET tasks == planDocument.tasksByCategory[i].tasks
          IN  /\ Len(body.taskDetails[i].tasks) = Len(tasks)
              /\ \A j \in 1..Len(tasks) :
                    /\ body.taskDetails[i].tasks[j].title = tasks[j].title
                    /\ body.taskDetails[i].tasks[j].duration = tasks[j].duration

\* what a downloaded document shows of a plan document
ContentShows(content, planDocument) ==
    /\ content.created = planDocument.createdDate
    /\ content.totalTasks = planDocument.taskCount
    /\ content.categories = planDocument.categories
    /\ content.duration = planDocument.totalDays
    /\ Len(content.timeline) = Len(planDocument.timeline)
    /\ \A i \in 1..Len(content.timeline) :
          /\ content.timeline[i].task = planDocument.timeline[i].task
          /\ content.timeline[i].days[1] = planDocument.timeline[i].startDay
          /\ content.timeline[i].days[2] = planDocument.timeline[i].endDay
    /\ Len(content.categoryBlocks) = Len(planDocument.tasksByCategory)
    /\ \A i \in 1..Len(content.categoryBlocks) :
          LET tasks == planDocument.tasksByCategory[i].tasks
          IN  /\ Len(content.categoryBlocks[i].tasks) = Len(tasks)
              /\ \A j \in 1..Len(tasks) :
                    content.categoryBlocks[i].tasks[j].title = tasks[j].title

\* C18: a plan document, once built, never changes: a select or deselect
\* call made while its modal is shown leaves the documents of the open
\* modals (task count, category count, tasks by category, timeline, total
\* days) as they were, so the mail body or the downloaded document made
\* from a modal later shows the document as it was built; and a generation
\* leaves the selected ids, the plan and the stored values as they were.
C18_DocumentIsSnapshot ==
    [][ /\ lastCall'.op = "handleTaskSelection" => modals' = modals
        /\ lastCall'.op = "emailPlan"
             => /\ modals' = modals
                /\ exported'.kind = "mailto"
                /\ BodyShows(exported'.body.uriComponent,
                             modals[lastCall'.modal])
        /\ lastCall'.op = "downloadPDF"
             => /\ modals' = modals
                /\ exported'.kind = "download"
                /\ ContentShows(exported'.content, modals[lastCall'.modal])
        /\ lastCall'.op \in {"generateProjectPlan", "showCurrentPlan"}
             => /\ selectedTasks' = selectedTasks
                /\ projectPlan' = projectPlan
                /\ localStorage' = localStorage
      ]_vars

\* a document built for one selected task is mailed after a second task was
\* selected, and the body shows one task
C18_Witness ==
    /\ lastCall.op = "emailPlan"
    /\ Len(projectPlan) = 2
    /\ modals[lastCall.modal].taskCount = 1
    /\ exported.kind = "mailto"
    /\ exported.body.uriComponent.totalTasks = 1
    /\ Len(exported.body.uriComponent.timeline) = 1

\* C19: in every reachable state, also right after a page load restored the
\* state, the view-plan request and the create-plan request made in that
\* state end alike: both are rejected, or both build and render the same
\* plan document.
C19_ViewAndCreateAgree ==
    \A today \in Dates :
       LET view == showCurrentPlan(selectedTasks, projectPlan, today)
           create == generateProjectPlan(selectedTasks, projectPlan, today)
           Rejected(request) == request.phases[Len(request.phases)] = "Rejected"
           Rendered(request) == request.phases[Len(request.phases)] = "Rendered"
       IN  \/ Rejected(view) /\ Rejected(create)
           \/ /\ Rendered(view) /\ Rendered(create)
              /\ view.documents = create.documents

====
